---- MODULE Spec2Model ----
(***************************************************************************)
(* Field-line tracer of electric-fields-with-rust (src/lib.rs):            *)
(* calculate_fields enumerates seed points around every source charge and  *)
(* calculate_field_line walks each seed through the superposed field of    *)
(* all charges.                                                            *)
(*                                                                         *)
(* f64 is modelled as a decimal floating-point number with Digits          *)
(* significant digits, [k |-> "fin", m |-> mantissa, e |-> exponent]       *)
(* standing for m * 10^e, together with the IEEE special values NaN, +inf  *)
(* and -inf, which follow the IEEE rules exactly.  The exponent is not     *)
(* bounded and zero carries no sign.                                       *)
(***************************************************************************)
EXTENDS Integers, Sequences, FiniteSets, TLC

\* ------------------------------------------------------------------ f64

Digits == 4

Abs(n) == IF n < 0 THEN -n ELSE n

Sgn(n) == IF n < 0 THEN -1 ELSE IF n > 0 THEN 1 ELSE 0

RoundDiv(a, b) == Sgn(a) * ((Abs(a) + (b \div 2)) \div b)

RECURSIVE NumDigits(_)
NumDigits(n) == IF n < 10 THEN 1 ELSE 1 + NumDigits(n \div 10)

RECURSIVE ISqrtBetween(_, _, _)
ISqrtBetween(n, lo, hi) ==
    IF lo >= hi THEN lo
    ELSE LET mid == (lo + hi + 1) \div 2
         IN  IF mid * mid <= n THEN ISqrtBetween(n, mid, hi)
             ELSE ISqrtBetween(n, lo, mid - 1)

ISqrt(n) ==
    LET r == ISqrtBetween(n, 0, 31623)
    IN  IF n - r * r > r THEN r + 1 ELSE r

NaN == [k |-> "nan", m |-> 0, e |-> 0]

PInf == [k |-> "inf", m |-> 1, e |-> 0]

NInf == [k |-> "inf", m |-> -1, e |-> 0]

Zero == [k |-> "fin", m |-> 0, e |-> 0]

Inf(s) == IF s < 0 THEN NInf ELSE PInf

\* m * 10^e rounded to Digits significant digits
Norm(m, e) ==
    IF m = 0 THEN Zero
    ELSE LET d == NumDigits(Abs(m))
         IN  IF d > Digits
             THEN LET q == RoundDiv(m, 10 ^ (d - Digits))
                  IN  IF Abs(q) = 10 ^ Digits
                      THEN [k |-> "fin", m |-> Sgn(q) * 10 ^ (Digits - 1), e |-> e + d - Digits + 1]
                      ELSE [k |-> "fin", m |-> q, e |-> e + d - Digits]
             ELSE [k |-> "fin", m |-> m * 10 ^ (Digits - d), e |-> e - (Digits - d)]

F(n) == Norm(n, 0)

IsNaN(a) == a.k = "nan"

IsFinite(a) == a.k = "fin"

FNeg(a) == IF a.k = "nan" THEN NaN ELSE [a EXCEPT !.m = -a.m]

FAdd(a, b) ==
    IF a.k = "nan" \/ b.k = "nan" THEN NaN
    ELSE IF a.k = "inf" /\ b.k = "inf" THEN (IF a.m = b.m THEN a ELSE NaN)
    ELSE IF a.k = "inf" THEN a
    ELSE IF b.k = "inf" THEN b
    ELSE IF a.m = 0 THEN b
    ELSE IF b.m = 0 THEN a
    ELSE LET hi == IF a.e >= b.e THEN a ELSE b
             lo == IF a.e >= b.e THEN b ELSE a
             diff == hi.e - lo.e
         IN  IF diff > Digits + 1 THEN hi
             ELSE Norm(hi.m * 10 ^ diff + lo.m, lo.e)

FSub(a, b) == FAdd(a, FNeg(b))

FMul(a, b) ==
    IF a.k = "nan" \/ b.k = "nan" THEN NaN
    ELSE IF a.k = "inf" \/ b.k = "inf"
         THEN (IF a.m = 0 \/ b.m = 0 THEN NaN ELSE Inf(Sgn(a.m) * Sgn(b.m)))
    ELSE Norm(a.m * b.m, a.e + b.e)

FDiv(a, b) ==
    IF a.k = "nan" \/ b.k = "nan" THEN NaN
    ELSE IF a.k = "inf" THEN (IF b.k = "inf" THEN NaN
                              ELSE Inf(a.m * (IF b.m < 0 THEN -1 ELSE 1)))
    ELSE IF b.k = "inf" THEN Zero
    ELSE IF b.m = 0 THEN (IF a.m = 0 THEN NaN ELSE Inf(a.m))
    ELSE Norm(Sgn(b.m) * RoundDiv(a.m * 10 ^ Digits, Abs(b.m)), a.e - b.e - Digits)

FSqrt(a) ==
    IF a.k = "nan" THEN NaN
    ELSE IF a.k = "inf" THEN (IF a.m > 0 THEN PInf ELSE NaN)
    ELSE IF a.m < 0 THEN NaN
    ELSE IF a.m = 0 THEN Zero
    ELSE IF a.e % 2 = 0
         THEN Norm(ISqrt(a.m * 10 ^ Digits), (a.e - Digits) \div 2)
         ELSE Norm(ISqrt(a.m * 10 ^ (Digits - 1)), (a.e - (Digits - 1)) \div 2)

\* x.powf(2.0)
Powf2(a) == FMul(a, a)

\* a < b and a > b; every comparison with NaN is false
FLt(a, b) ==
    LET d == FSub(a, b) IN d.k # "nan" /\ d.m < 0

FGt(a, b) == FLt(b, a)

\* ------------------------------------------------------------ vecmath

vec2_add(a, b) == <<FAdd(a[1], b[1]), FAdd(a[2], b[2])>>

vec2_sub(a, b) == <<FSub(a[1], b[1]), FSub(a[2], b[2])>>

vec2_scale(a, t) == <<FMul(a[1], t), FMul(a[2], t)>>

vec2_neg(a) == <<FNeg(a[1]), FNeg(a[2])>>

vec2_len(a) == FSqrt(FAdd(FMul(a[1], a[1]), FMul(a[2], a[2])))

\* a scaled by 1 / |a|: the zero vector gives 0 * inf = NaN in both components
vec2_normalized(a) == vec2_scale(a, FDiv(F(1), vec2_len(a)))

\* --------------------------------------------------------------- bounds

MaxFields == 2

MaxDensity == 4

MaxSteps == 3

\* width given to usize: a build without overflow checks wraps 0 - 1 to
\* 2^UsizeBits - 1, far beyond every loop bound the model lets a loop reach
UsizeBits == 16

\* ------------------------------------------------------------ constants

Tolerance == 100

DistanceScale == 100

Signs == {"Positive", "Negative"}

\* usize subtraction in a build without overflow checks
WrappingSub(a, b) == (a - b + 2 ^ UsizeBits) % (2 ^ UsizeBits)

\* ------------------------------------------------------ trigonometry

Pi == [k |-> "fin", m |-> 3142, e |-> -3]

\* angle.cos() and angle.sin() are tabulated for the angles the seed loop can
\* form, rounded to Digits digits (the residue of f64 near the zeros of cos and
\* sin is below that resolution).
\* cos and sin of the multiples of 360/n degrees, n in 1..6, in units of 10^-4
CosSinE4 ==
    [deg \in {0, 60, 72, 90, 120, 144, 180, 216, 240, 270, 288, 300} |->
        CASE deg = 0 -> <<10000, 0>>
          [] deg = 60 -> <<5000, 8660>>
          [] deg = 72 -> <<3090, 9511>>
          [] deg = 90 -> <<0, 10000>>
          [] deg = 120 -> <<-5000, 8660>>
          [] deg = 144 -> <<-8090, 5878>>
          [] deg = 180 -> <<-10000, 0>>
          [] deg = 216 -> <<-8090, -5878>>
          [] deg = 240 -> <<-5000, -8660>>
          [] deg = 270 -> <<0, -10000>>
          [] deg = 288 -> <<3090, -9511>>
          [] deg = 300 -> <<5000, -8660>>]

DeltaAngle(density) == FDiv(FMul(F(2), Pi), F(density))

Angle(density, index) == FMul(DeltaAngle(density), F(index))

SeedAngles == {<<n, j>> : n \in 1..6, j \in 0..5} \ {<<n, j>> \in (1..6) \X (0..5) : j >= n}

DegreesOf(angle) ==
    LET p == CHOOSE p \in SeedAngles : Angle(p[1], p[2]) = angle
    IN  (360 * p[2]) \div p[1]

Cos(angle) == IF IsFinite(angle) THEN Norm(CosSinE4[DegreesOf(angle)][1], -4) ELSE NaN

Sin(angle) == IF IsFinite(angle) THEN Norm(CosSinE4[DegreesOf(angle)][2], -4) ELSE NaN

\* ----------------------------------------------------------------- state

VARIABLES
    pc,          \* position in calculate_fields / calculate_field_line
    input,       \* fields_in_json
    width, height,
    fields,      \* the deserialized Vec<Field>
    log,         \* messages sent to web_sys::console
    fi,          \* position of the outer map in fields (1-based)
    seedEnd,     \* end of the range 0..field.density - 1
    index,       \* position of the inner map in that range
    lines,       \* lines collected for the current field
    new_fields,  \* fields mapped so far
    result,      \* value returned by calculate_fields
    charges, steps, delta, source_sign, start, x_bound, y_bound,
                 \* arguments of the running calculate_field_line
    stepEnd,     \* end of the range 0..steps - 1
    it,          \* position of fold_while in that range
    line         \* accumulator of fold_while

frame == <<charges, steps, delta, source_sign, start, x_bound, y_bound>>

batch == <<input, width, height, fields, log, fi, seedEnd, index, lines, new_fields, result>>

vars == <<pc, batch, frame, stepEnd, it, line>>

\* ------------------------------------------------------ calculate_field_line

distance(a, b) ==
    FSqrt(FAdd(Powf2(FSub(b[1], a[1])), Powf2(FSub(b[2], a[2]))))

OutOfBoundsNoLowerX(p, xb, yb) ==
    \/ FGt(p[1], FAdd(xb, F(Tolerance)))
    \/ FGt(p[2], FAdd(yb, F(Tolerance)))
    \/ FLt(p[2], FNeg(F(Tolerance)))

OutOfBoundsNoUpperY(p, xb, yb) ==
    \/ FGt(p[1], FAdd(xb, F(Tolerance)))
    \/ FLt(p[1], FNeg(F(Tolerance)))
    \/ FLt(p[2], FNeg(F(Tolerance)))

OutOfBounds(p, xb, yb) ==
    \/ FGt(p[1], FAdd(xb, F(Tolerance)))
    \/ FLt(p[1], FNeg(F(Tolerance)))
    \/ FGt(p[2], FAdd(yb, F(Tolerance)))
    \/ FLt(p[2], FNeg(F(Tolerance)))

SignFactorSwapped(sign) == IF sign = "Positive" THEN F(-1) ELSE F(1)

SignFactor(sign) == IF sign = "Positive" THEN F(1) ELSE F(-1)

\* contribution of one charge to the field at previous_position
ChargeField(charge, previous_position) ==
    LET charge_position == <<charge.position.x, charge.position.y>>
        d == FDiv(distance(previous_position, charge_position), F(DistanceScale))
        magnitude == FDiv(charge.magnitude, Powf2(d))
    IN  vec2_scale(vec2_normalized(vec2_sub(previous_position, charge_position)),
                   FMul(SignFactor(charge.sign), magnitude))

RECURSIVE FoldField(_, _, _)
FoldField(cs, sum, previous_position) ==
    IF cs = <<>> THEN sum
    ELSE FoldField(Tail(cs), vec2_add(sum, ChargeField(Head(cs), previous_position)),
                   previous_position)

NetField(cs, previous_position) == FoldField(cs, <<Zero, Zero>>, previous_position)

DeltaVector(cs, dl, previous_position) ==
    vec2_scale(vec2_normalized(NetField(cs, previous_position)), dl)

DirectedNeverNegated(sign, delta_vector) == delta_vector

Directed(sign, delta_vector) ==
    IF sign = "Positive" THEN delta_vector ELSE vec2_neg(delta_vector)

NextPoint(cs, dl, sign, previous_position) ==
    vec2_add(previous_position, Directed(sign, DeltaVector(cs, dl, previous_position)))

StepRangeEndOffByOne(n) == n

StepRangeEnd(n) == WrappingSub(n, 1)

\* entry: the range 0..steps - 1 is built and the fold starts from vec![start]
FoldBegin ==
    /\ pc = "call"
    /\ stepEnd' = StepRangeEnd(steps)
    /\ it' = 0
    /\ line' = <<start>>
    /\ pc' = "fold"
    /\ UNCHANGED <<batch, frame>>

\* steps - 1 with steps = 0 in a build with overflow checks
FoldPanic ==
    /\ pc = "call"
    /\ steps = 0
    /\ pc' = "panicked"
    /\ UNCHANGED <<batch, frame, stepEnd, it, line>>

FoldContinue ==
    /\ pc = "fold"
    /\ it < stepEnd
    /\ it < MaxSteps  \* reached only by a wrapped range
    /\ ~OutOfBounds(line[Len(line)], x_bound, y_bound)
    /\ line' = Append(line, NextPoint(charges, delta, source_sign, line[Len(line)]))
    /\ it' = it + 1
    /\ UNCHANGED <<pc, batch, frame, stepEnd>>

FoldDone ==
    /\ pc = "fold"
    /\ it < stepEnd
    /\ it < MaxSteps
    /\ OutOfBounds(line[Len(line)], x_bound, y_bound)
    /\ pc' = "Done"
    /\ UNCHANGED <<batch, frame, stepEnd, it, line>>

FoldExhausted ==
    /\ pc = "fold"
    /\ it >= stepEnd
    /\ pc' = "Continue"
    /\ UNCHANGED <<batch, frame, stepEnd, it, line>>

\* ---------------------------------------------------------- calculate_fields

Position(x, y) == [x |-> F(x), y |-> F(y)]

Charge(id, sign, magnitude, x, y, r) ==
    [id |-> id, sign |-> sign, magnitude |-> F(magnitude), position |-> Position(x, y),
     r |-> F(r)]

Field(source, density, nsteps, dl) ==
    [source |-> source, density |-> density, steps |-> nsteps, delta |-> F(dl),
     lines |-> <<>>]

PrimaryFields ==
    {Field(Charge(1, s, m, 50, 50, r), n, k, 20) :
        s \in Signs, m \in {0, 10}, r \in {0, 20, 160}, n \in 0..MaxDensity, k \in 0..MaxSteps}

OtherField(j, s) == Field(Charge(j, s, 10, 10 + 40 * j, 50, 20), 2, 2, 20)

Batches ==
    {<<>>} \cup
    UNION {{<<p>> \o [j \in 1..n |-> OtherField(j + 1, ss[j])] : p \in PrimaryFields, ss \in [1..n -> Signs]} :
             n \in 0..(MaxFields - 1)}

Inputs == [wellFormed : BOOLEAN, records : Batches]

\* fields_in_json.into_serde(), with the Err arm's vec![]
IntoSerdeIgnoringErr(json) == json.records

IntoSerde(json) == IF json.wellFormed THEN json.records ELSE <<>>

FirstChargeOnly(fs) == <<fs[1].source>>

GlobalCharges(fs) == [j \in 1..Len(fs) |-> fs[j].source]

SeedRangeEnd(density) == WrappingSub(density, 1)

Seed(field, idx) ==
    LET source_position == <<field.source.position.x, field.source.position.y>>
        angle == Angle(field.density, idx)
        dx == FMul(field.source.r, Cos(angle))
        dy == FMul(field.source.r, Sin(angle))
    IN  vec2_add(<<dx, dy>>, source_position)

Deserialize ==
    /\ pc = "deserialize"
    /\ fields' = IntoSerde(input)
    /\ log' = IF input.wellFormed THEN log ELSE Append(log, "err")
    /\ fi' = 1
    /\ pc' = "map"
    /\ UNCHANGED <<input, width, height, seedEnd, index, lines, new_fields, result,
                   frame, stepEnd, it, line>>

MapField ==
    /\ pc = "map"
    /\ fi <= Len(fields)
    /\ seedEnd' = SeedRangeEnd(fields[fi].density)
    /\ index' = 0
    /\ lines' = <<>>
    /\ pc' = "seeds"
    /\ UNCHANGED <<input, width, height, fields, log, fi, new_fields, result,
                   frame, stepEnd, it, line>>

\* field.density - 1 with density = 0 in a build with overflow checks
MapPanic ==
    /\ pc = "map"
    /\ fi <= Len(fields)
    /\ fields[fi].density = 0
    /\ pc' = "panicked"
    /\ UNCHANGED <<batch, frame, stepEnd, it, line>>

MapDone ==
    /\ pc = "map"
    /\ fi > Len(fields)
    /\ result' = new_fields
    /\ pc' = "returned"
    /\ UNCHANGED <<input, width, height, fields, log, fi, seedEnd, index, lines,
                   new_fields, frame, stepEnd, it, line>>

SeedNext ==
    /\ pc = "seeds"
    /\ index < seedEnd
    /\ index < MaxDensity  \* reached only by a wrapped range
    /\ charges' = GlobalCharges(fields)
    /\ steps' = fields[fi].steps
    /\ delta' = fields[fi].delta
    /\ source_sign' = fields[fi].source.sign
    /\ start' = Seed(fields[fi], index)
    /\ x_bound' = width
    /\ y_bound' = height
    /\ pc' = "call"
    /\ UNCHANGED <<batch, stepEnd, it, line>>

LineReturn ==
    /\ pc \in {"Done", "Continue"}
    /\ lines' = Append(lines, line)
    /\ index' = index + 1
    /\ pc' = "seeds"
    /\ UNCHANGED <<input, width, height, fields, log, fi, seedEnd, new_fields, result,
                   frame, stepEnd, it, line>>

SeedsDone ==
    /\ pc = "seeds"
    /\ index >= seedEnd
    /\ new_fields' = Append(new_fields, [fields[fi] EXCEPT !.lines = lines])
    /\ fi' = fi + 1
    /\ pc' = "map"
    /\ UNCHANGED <<input, width, height, fields, log, seedEnd, index, lines, result,
                   frame, stepEnd, it, line>>

\* ------------------------------------------------------------ specifications

NoCall ==
    /\ charges = <<>>
    /\ steps = 0
    /\ delta = Zero
    /\ source_sign = "Positive"
    /\ start = <<Zero, Zero>>
    /\ x_bound = Zero
    /\ y_bound = Zero
    /\ stepEnd = 0
    /\ it = 0
    /\ line = <<>>

Init ==
    /\ pc = "deserialize"
    /\ input \in Inputs
    /\ width = F(100)
    /\ height = F(100)
    /\ fields = <<>>
    /\ log = <<>>
    /\ fi = 0
    /\ seedEnd = 0
    /\ index = 0
    /\ lines = <<>>
    /\ new_fields = <<>>
    /\ result = <<>>
    /\ NoCall

Next ==
    \/ Deserialize
    \/ MapField
    \/ MapPanic
    \/ MapDone
    \/ SeedNext
    \/ LineReturn
    \/ SeedsDone
    \/ FoldBegin
    \/ FoldPanic
    \/ FoldContinue
    \/ FoldDone
    \/ FoldExhausted

Spec == Init /\ [][Next]_vars

\* calculate_field_line on its own, its arguments drawn from bounded sets

LineCharges ==
    {<<Charge(1, s, m, 50, 50, 20)>> : s \in Signs, m \in {0, 10}} \cup
    {<<Charge(1, s, m, 50, 50, 20), Charge(2, t, 10, 90, 50, 20)>> :
        s \in Signs, m \in {0, 10}, t \in Signs}

LineStarts ==
    {<<F(x), F(50)>> : x \in {-110, 30, 49, 50, 70, 190, 210}} \cup
    {<<F(50), F(y)>> : y \in {-110, 210}} \cup {<<F(80), F(90)>>}

InitLine ==
    /\ pc = "call"
    /\ input = [wellFormed |-> TRUE, records |-> <<>>]
    /\ width = F(100)
    /\ height = F(100)
    /\ fields = <<>>
    /\ log = <<>>
    /\ fi = 0
    /\ seedEnd = 0
    /\ index = 0
    /\ lines = <<>>
    /\ new_fields = <<>>
    /\ result = <<>>
    /\ charges \in LineCharges
    /\ steps \in 0..MaxSteps
    /\ delta \in {F(5), F(20)}
    /\ source_sign \in Signs
    /\ start \in LineStarts
    /\ x_bound = width
    /\ y_bound = height
    /\ stepEnd = 0
    /\ it = 0
    /\ line = <<>>

NextLine ==
    \/ FoldBegin
    \/ FoldPanic
    \/ FoldContinue
    \/ FoldDone
    \/ FoldExhausted

SpecLine == InitLine /\ [][NextLine]_vars

\* ------------------------------------------------------------------ claims

Folding == pc \in {"fold", "Done", "Continue"}

Finished == pc \in {"Done", "Continue"}

\* the bounds predicate of the specification, written out for one point
Outside(p) ==
    \/ FGt(p[1], FAdd(x_bound, F(100)))
    \/ FLt(p[1], F(-100))
    \/ FGt(p[2], FAdd(y_bound, F(100)))
    \/ FLt(p[2], F(-100))

\* C1: when calculate_fields returns, every field with density >= 1 (and
\* steps >= 1) holds exactly `density` lines.
C1_DensityLines ==
    pc = "returned" =>
        \A j \in 1..Len(result) :
            (fields[j].density >= 1 /\ fields[j].steps >= 1)
                => Len(result[j].lines) = fields[j].density

\* C2: density = 0 or steps = 0 is rejected or clamped before the loops: no
\* panic, the seed loop is never entered with density 0 and the step loop is
\* never entered with steps 0.
C2_ZeroRejected ==
    /\ pc # "panicked"
    /\ pc = "seeds" => fields[fi].density >= 1
    /\ pc = "fold" => steps >= 1

\* C3: for steps >= 1 no point of a traced line is NaN or infinite.
C3_FinitePoints ==
    (Folding /\ steps >= 1) => \A k \in 1..Len(line) : IsFinite(line[k][1]) /\ IsFinite(line[k][2])

\* C4: for steps >= 1 the returned line has between 1 and steps points, starts
\* with the seed, and has exactly steps points iff the bounds check never fired.
C4_LineLength ==
    (Finished /\ steps >= 1) =>
        /\ Len(line) >= 1
        /\ Len(line) <= steps
        /\ line[1] = start
        /\ (Len(line) = steps) <=> (pc = "Continue")

C4_Witness == pc = "Done" /\ Len(line) >= 2 /\ Len(line) < steps

\* C5: a seed beyond the tolerance-expanded canvas yields the line [start].
C5_SeedOutside ==
    (Folding /\ steps >= 1 /\ Outside(start)) => line = <<start>>

C5_Witness == pc = "Done" /\ Outside(start) /\ steps >= 2 /\ line = <<start>>

SingleCharge(sign) ==
    /\ steps >= 1
    /\ Len(charges) = 1
    /\ charges[1].sign = sign
    /\ FGt(charges[1].magnitude, Zero)
    /\ FGt(delta, Zero)
    /\ source_sign = sign
    /\ start[2] = charges[1].position.y
    /\ start[1] # charges[1].position.x

DistanceToCharge(p) == distance(p, <<charges[1].position.x, charges[1].position.y>>)

\* C6 as stated: single Negative charge, Negative source, seed on the axis
\* through the charge: every step from a point farther than one step from the
\* charge ends strictly closer to the charge.
C6_Inward ==
    (Folding /\ SingleCharge("Negative")) =>
        \A k \in 1..(Len(line) - 1) :
            FGt(DistanceToCharge(line[k]), delta)
                => FLt(DistanceToCharge(line[k + 1]), DistanceToCharge(line[k]))

\* C6 amended: in that setting every step ends strictly farther from the charge.
C6_Outward ==
    (Folding /\ SingleCharge("Negative")) =>
        \A k \in 1..(Len(line) - 1) :
            FGt(DistanceToCharge(line[k + 1]), DistanceToCharge(line[k]))

C6_Witness == pc = "Continue" /\ SingleCharge("Negative") /\ Len(line) >= 3

\* C7: single Positive charge, Positive source, seed on the axis through the
\* charge: every step ends strictly farther from the charge.
C7_Outward ==
    (Folding /\ SingleCharge("Positive")) =>
        \A k \in 1..(Len(line) - 1) :
            FGt(DistanceToCharge(line[k + 1]), DistanceToCharge(line[k]))

C7_Witness == pc = "Continue" /\ SingleCharge("Positive") /\ Len(line) >= 3

\* C8: every line is traced against the sources of all fields of the batch, in
\* input order, and every appended point is the step under their summed field.
C8_GlobalCharges ==
    pc \in {"call", "fold", "Done", "Continue"} =>
        LET all == [j \in 1..Len(fields) |-> fields[j].source]
        IN  /\ charges = all
            /\ \A k \in 1..(Len(line) - 1) :
                   pc # "call" => line[k + 1] = NextPoint(all, delta, source_sign, line[k])

C8_Witness ==
    /\ pc = "Continue"
    /\ Len(fields) >= 2
    /\ Len(line) >= 2
    /\ line[2] # NextPoint(<<fields[fi].source>>, delta, source_sign, line[1])

\* C9: on input that fails to deserialize, calculate_fields logs one message,
\* traces nothing and returns the empty list.
C9_MalformedInput ==
    ~input.wellFormed =>
        /\ pc \in {"deserialize", "map", "returned"}
        /\ pc # "deserialize" => log = <<"err">>
        /\ new_fields = <<>>
        /\ line = <<>>
        /\ pc = "returned" => result = <<>>

C9_Witness == ~input.wellFormed /\ input.records # <<>> /\ pc = "returned"

\* C10: only the last point of a line can lie beyond the tolerance-expanded
\* canvas.
C10_OnlyLastOutside ==
    Folding => \A k \in 1..(Len(line) - 1) : ~Outside(line[k])

C10_Witness ==
    /\ pc = "Done"
    /\ Len(line) >= 2
    /\ ~Outside(start)
    /\ Outside(line[Len(line)])
====
